---- MODULE Spec2Model ----
(***************************************************************************)
(* Model of the Telegram astrology bot (src/telegram_bot): the user store  *)
(* (database.py), the per-user daily trigger in the job queue, the daily   *)
(* dispatch send_daily_horoscope and the handlers that write the store or  *)
(* the job queue (bot.py, payments.py, referral.py).                       *)
(*                                                                         *)
(* Time is an integer number of ticks; a day has TicksPerDay ticks and a   *)
(* delivery time (schedule_time) is a tick of the day.  Two events in the  *)
(* same tick read the same clock value.                                    *)
(*                                                                         *)
(* bot.py reads rows with user.get(...), reads the columns is_trial and    *)
(* trial_expiration, passes is_trial= to set_subscription_status and calls *)
(* database.set_trial_expiration / database.clear_trial.  database.py as   *)
(* given has none of these; they are modelled from their call sites (rows  *)
(* behave as mappings, the two columns exist).                             *)
(***************************************************************************)
EXTENDS Integers, Sequences, FiniteSets, TLC

\* ------------------------------------------------------------------ bounds
Users == {1, 2, 3}
Subscribers == {1}
TicksPerDay == 2
MaxNow == 2
MaxPoints == 10
MaxInflight == 2
MaxCalls == 3

\* ------------------------------------------------------- program constants
TRIAL_DAYS == 10
SUBSCRIPTION_DURATION_DAYS == 30
REFERRAL_BONUS_POINTS == 10

None == -1
Times == 0 .. (TicksPerDay - 1)
Slots == 1 .. MaxInflight

Max(a, b) == IF a >= b THEN a ELSE b
DayOf(t) == t \div TicksPerDay
Days(n) == n * TicksPerDay

VARIABLES users, jobs, now, phase, handler, firings, day, calls, blocked, calc

vars == <<users, jobs, now, phase, handler, firings, day, calls, blocked, calc>>

\* ---------------------------------------------------------- database.py
\* A row of the users table.  exp_aware tells whether the stored ISO text of
\* subscription_expiration carries a UTC offset (written from a timezone-aware
\* datetime) or not (written from datetime.utcnow()).
NoUser ==
    [exists |-> FALSE, name |-> None, birth_date |-> None, birth_time |-> None,
     schedule_time |-> None, referral_code |-> None, referred_by |-> None,
     points |-> 0, subscription_active |-> FALSE,
     subscription_expiration |-> None, exp_aware |-> FALSE,
     is_trial |-> FALSE, trial_expiration |-> None]

get_user(us, u) == us[u]

\* UPDATE/INSERT of add_or_update_user: a field passed as None is left alone
\* on an existing row; a new row starts with points 0 and no subscription.
add_or_update_user(us, u, name, birth_date, birth_time, schedule_time, referral_code, referred_by) ==
    LET old == us[u]
        base == IF old.exists THEN old ELSE [NoUser EXCEPT !.exists = TRUE]
        pick(new, cur) == IF new # None THEN new ELSE cur
    IN [us EXCEPT ![u] =
          [base EXCEPT !.name = pick(name, base.name),
                       !.birth_date = pick(birth_date, base.birth_date),
                       !.birth_time = pick(birth_time, base.birth_time),
                       !.schedule_time = pick(schedule_time, base.schedule_time),
                       !.referral_code = pick(referral_code, base.referral_code),
                       !.referred_by = pick(referred_by, base.referred_by)]]

\* set_schedule_time without its UPDATE.
set_schedule_time_unstored(us, u, t) == us

set_schedule_time(us, u, t) ==
    IF us[u].exists THEN [us EXCEPT ![u].schedule_time = t] ELSE us

\* update_points without the max(0, ...) of line 243.
update_points_unclamped(us, u, points_delta) ==
    IF ~us[u].exists THEN us
    ELSE [us EXCEPT ![u].points = us[u].points + points_delta]

update_points(us, u, points_delta) ==
    IF ~us[u].exists THEN us
    ELSE [us EXCEPT ![u].points = Max(0, us[u].points + points_delta)]

\* set_subscription_status storing the expiration passed whatever active is.
set_subscription_status_storing(us, u, active, expiration_date, aware, is_trial) ==
    IF ~us[u].exists THEN us
    ELSE [us EXCEPT ![u].subscription_active = active,
                    ![u].subscription_expiration = expiration_date,
                    ![u].exp_aware = aware,
                    ![u].is_trial = IF is_trial = None THEN us[u].is_trial
                                    ELSE (is_trial = 1)]

\* is_trial is 1 or 0 when the keyword is passed and None when it is not.
set_subscription_status(us, u, active, expiration_date, aware, is_trial) ==
    IF ~us[u].exists THEN us
    ELSE [us EXCEPT ![u].subscription_active = active,
                    ![u].subscription_expiration =
                         IF active THEN expiration_date ELSE None,
                    ![u].exp_aware = IF active THEN aware ELSE FALSE,
                    ![u].is_trial = IF is_trial = None THEN us[u].is_trial
                                    ELSE (is_trial = 1)]

set_trial_expiration(us, u, t) ==
    IF us[u].exists THEN [us EXCEPT ![u].trial_expiration = t] ELSE us

clear_trial(us, u) ==
    IF us[u].exists
    THEN [us EXCEPT ![u].is_trial = FALSE, ![u].trial_expiration = None]
    ELSE us

\* ------------------------------------------------------------ job queue
\* jobs[u] is the list of live jobs named daily_<u>; a job has the time of
\* day it was created with and the instant of its next run.
Job(t, n) == [tod |-> t, next |-> n]

\* run_daily arms the job for the next occurrence of the time of day: later
\* today if that time has not passed yet, tomorrow otherwise.
NextOccurrence(t, n) ==
    LET today == Days(DayOf(n)) + t
    IN IF today > n THEN today ELSE today + TicksPerDay

get_jobs_by_name(js, u) == js[u]

\* schedule_daily_job without the removal loop of lines 101-104.
schedule_removal_skipped(js, u) == js

schedule_removal(js, u) == [js EXCEPT ![u] = << >>]

\* run_daily given a fixed time of day instead of the parsed one.
run_daily_fixed_time(js, u, t, n) == [js EXCEPT ![u] = Append(js[u], Job(0, NextOccurrence(0, n)))]

run_daily(js, u, t, n) == [js EXCEPT ![u] = Append(js[u], Job(t, NextOccurrence(t, n)))]

\* parse_time_str: a well-formed text names a time of day, anything else
\* gives None.  BadTime stands for every rejected text.
BadTime == TicksPerDay
TimeInputs == Times \cup {BadTime}
\* parse_time_str taking every text.
parse_time_str_lenient(x) == x

parse_time_str(x) == IF x \in Times THEN x ELSE None

\* ------------------------------------------------- send_daily_horoscope
IdleFiring ==
    [pc |-> "idle", uid |-> 0, now |-> 0, user |-> NoUser, source |-> "none",
     consumed |-> 0, left |-> None, changed |-> FALSE, interfered |-> FALSE]

\* Case 3 / case 4 of the dispatch: the bonus days read at the start decide.
Case3Pc(user) == IF user.points > 0 THEN "use_points" ELSE "send_preview"

\* The comparison sub_expiration >= now of lines 202 and 212: now is
\* datetime.utcnow(), a naive datetime, so a parsed expiration that carries an
\* offset makes the comparison raise TypeError.
Unexpired(user, n) == user.subscription_expiration >= n

\* The first step of a firing with an effect, from the row read at line 155.
FirstPc(user, n) ==
    IF ~user.exists THEN "return"
    ELSE IF user.subscription_active /\ ~user.is_trial
    THEN IF user.subscription_expiration # None
         THEN IF user.exp_aware THEN "raise"
              ELSE IF Unexpired(user, n) THEN "send_full" ELSE "expire_paid"
         ELSE "expire_paid"
    ELSE IF user.subscription_active /\ user.is_trial
    THEN IF user.subscription_expiration # None
         THEN IF user.exp_aware THEN "raise"
              ELSE IF Unexpired(user, n) THEN "send_full" ELSE "clear_trial"
         ELSE "clear_trial"
    ELSE Case3Pc(user)

FirstSource(user) ==
    IF user.subscription_active /\ ~user.is_trial THEN "subscription"
    ELSE IF user.subscription_active /\ user.is_trial THEN "trial"
    ELSE "none"

\* Marks the firings in flight, other than slot i, whose user's row another
\* actor has just changed.
Touch(fs, us1, us2, i) ==
    [j \in Slots |->
        IF j # i /\ fs[j].pc # "idle" /\ us1[fs[j].uid] # us2[fs[j].uid]
        THEN [fs[j] EXCEPT !.interfered = TRUE] ELSE fs[j]]

\* A job queue with one worker thread.
FreeSlot_single_worker(i) == i = 1 /\ \A j \in Slots : firings[j].pc = "idle"

\* The job queue runs each callback in a thread of its pool; the model
\* takes the lowest free one.
FreeSlot(i) == firings[i].pc = "idle" /\ \A j \in Slots : j < i => firings[j].pc # "idle"

Due(u, k) == k \in 1 .. Len(jobs[u]) /\ jobs[u][k].next = now

NoDue == \A u \in Users : \A k \in 1 .. Len(jobs[u]) : jobs[u][k].next > now

\* Per-day bookkeeping of what each user was sent (history, not program
\* state): full messages and all messages delivered today, bonus days removed
\* today, the number of firings that changed the user's row today, whether a
\* send failed, a firing raised or the process stopped today, whether the user
\* had a stored delivery time when the day began, and whether the user got
\* nothing on the day that has just ended although none of these happened.
NewDay(us, missed) ==
    [full |-> [u \in Users |-> 0], msgs |-> [u \in Users |-> 0],
     consumed |-> [u \in Users |-> 0], changers |-> [u \in Users |-> 0],
     failed |-> [u \in Users |-> FALSE],
     had |-> [u \in Users |-> us[u].exists /\ us[u].schedule_time # None],
     missed |-> missed]

Sent(d, u, attempt, delivered) ==
    IF delivered
    THEN [d EXCEPT !.msgs[u] = @ + 1,
                   !.full[u] = IF attempt = "full" THEN @ + 1 ELSE @]
    ELSE [d EXCEPT !.failed[u] = TRUE]

\* Lines 154-199: the job runs, reads the row and the clock and takes the
\* branch the row decides; the job is re-armed for the next day.
BeginFiring(u, k, i) ==
    /\ phase = "running"
    /\ Due(u, k)
    /\ FreeSlot(i)
    /\ LET user == get_user(users, u)
           pc0 == FirstPc(user, now)
           f == [IdleFiring EXCEPT !.pc = pc0, !.uid = u, !.now = now,
                                   !.user = user,
                                   !.source = IF pc0 = "send_full"
                                              THEN FirstSource(user) ELSE "none"]
       IN /\ jobs' = [jobs EXCEPT ![u][k].next = @ + TicksPerDay]
          /\ firings' = [firings EXCEPT ![i] = f]
          /\ day' = IF pc0 = "raise" THEN [day EXCEPT !.failed[u] = TRUE] ELSE day
    /\ UNCHANGED <<users, now, phase, handler, calls, blocked, calc>>

\* A write of a firing to the store: the new store, the next step.
FiringWrite(i, us, pc, source, consumed, left) ==
    /\ users' = us
    /\ firings' = Touch([firings EXCEPT ![i].pc = pc,
                                        ![i].source = source,
                                        ![i].consumed = @ + consumed,
                                        ![i].left = left,
                                        ![i].changed = @ \/ us # users],
                        users, us, i)
    /\ day' = [day EXCEPT !.consumed[firings[i].uid] = @ + consumed,
                          !.changers[firings[i].uid] =
                              IF ~firings[i].changed /\ us # users THEN @ + 1 ELSE @]
    /\ UNCHANGED <<jobs, now, phase, handler, calls, blocked, calc>>

\* Lines 207 and 218: the expired subscription or trial is switched off.
ExpireSubscription(i) ==
    /\ phase = "running"
    /\ firings[i].pc \in {"expire_paid", "expire_trial"}
    /\ LET f == firings[i]
       IN FiringWrite(i, set_subscription_status(users, f.uid, FALSE, None, FALSE, None),
                      Case3Pc(f.user), "none", 0, f.left)

\* Line 217.
ClearTrial(i) ==
    /\ phase = "running"
    /\ firings[i].pc = "clear_trial"
    /\ FiringWrite(i, clear_trial(users, firings[i].uid), "expire_trial", "none", 0,
                   firings[i].left)

\* Line 227: the delta handed to update_points is minus the whole balance
\* read at the start.
BonusDelta(user) == 0 - user.points

\* Lines 222-227: all the bonus days read at the start are taken off.
UsePoints(i) ==
    /\ phase = "running"
    /\ firings[i].pc = "use_points"
    /\ LET f == firings[i]
           us == update_points(users, f.uid, BonusDelta(f.user))
       IN FiringWrite(i, us, "set_bonus", "bonus",
                      users[f.uid].points - us[f.uid].points, us[f.uid].points)

\* Lines 225 and 228-233: they become a subscription of that many days.
SetBonusSubscription(i) ==
    /\ phase = "running"
    /\ firings[i].pc = "set_bonus"
    /\ LET f == firings[i]
       IN FiringWrite(i, set_subscription_status(users, f.uid, TRUE,
                                                 f.now + Days(f.user.points), FALSE, 0),
                      "send_full", "bonus", 0, f.left)

\* What a call of context.bot.send_message can do: deliver or raise.
Outcomes == {"ok", "error"}

\* The one send of a firing; the firing then stands at sent_<attempt> or
\* failed_<attempt>.  No except clause is around the call: the exception
\* ends the callback and nothing is stored about it.  blocked records, as
\* history, the instant at which the transport first reported the user
\* unreachable (None: never): outcome "forbidden", the Unauthorized error
\* raised for a user who has blocked the bot.
FiringSend(i, attempt, outcome) ==
    LET ok == outcome = "ok"
    IN /\ day' = Sent(day, firings[i].uid, attempt, ok)
       /\ firings' = [firings EXCEPT ![i].pc =
                          IF attempt = "full"
                          THEN (IF ok THEN "sent_full" ELSE "failed_full")
                          ELSE (IF ok THEN "sent_preview" ELSE "failed_preview")]
       /\ blocked' = IF outcome = "forbidden" /\ blocked[firings[i].uid] = None
                     THEN [blocked EXCEPT ![firings[i].uid] = now]
                     ELSE blocked
       /\ UNCHANGED <<users, jobs, now, phase, handler, calls, calc>>

\* Lines 176-178, called at 203, 213 and 234.
SendFull(i) ==
    /\ phase = "running"
    /\ firings[i].pc = "send_full"
    /\ \E outcome \in Outcomes : FiringSend(i, "full", outcome)

\* Lines 179-199, called at 237.
SendPreview(i) ==
    /\ phase = "running"
    /\ firings[i].pc = "send_preview"
    /\ \E outcome \in Outcomes : FiringSend(i, "preview", outcome)

\* Either send, to a user who has blocked the bot.
SendRefused(i) ==
    /\ phase = "running"
    /\ firings[i].pc \in {"send_full", "send_preview"}
    /\ FiringSend(i, IF firings[i].pc = "send_full" THEN "full" ELSE "preview", "forbidden")

\* Lines 177 and 180 with the ephemeris out of reach: load("de421.bsp") in
\* compute_natal_positions (astrology.py line 88) raises, get_daily_message
\* has no handler around it (its try ends at line 315), and the callback
\* ends before send_message is called.
EphemerisUnavailable(i) ==
    /\ phase = "running"
    /\ firings[i].pc \in {"send_full", "send_preview"}
    /\ firings' = [firings EXCEPT ![i].pc = "no_message"]
    /\ day' = [day EXCEPT !.failed[firings[i].uid] = TRUE]
    /\ UNCHANGED <<users, jobs, now, phase, handler, calls, blocked, calc>>

Terminal ==
    {"return", "raise", "sent_full", "failed_full", "sent_preview", "failed_preview",
     "no_message"}

\* The callback is over: it returned, or its exception went to the job
\* queue, which logs it.
Return(i) ==
    /\ phase = "running"
    /\ firings[i].pc \in Terminal
    /\ firings' = [firings EXCEPT ![i] = IdleFiring]
    /\ UNCHANGED <<users, jobs, now, phase, handler, day, calls, blocked, calc>>

\* ------------------------------------------------------------- the clock
InFlight(u) == \E i \in Slots : firings[i].pc # "idle" /\ firings[i].uid = u

\* Time passes.  A due job starts before the clock moves on, a handler and
\* the start-up loop finish within their tick, and a firing lasts less than
\* a day.  The clock is followed up to limit.
Advance(limit) ==
    /\ now < limit
    /\ phase # "starting"
    /\ handler.op = "idle"
    /\ phase = "running" => NoDue
    /\ DayOf(now + 1) # DayOf(now) => \A u \in Users : ~InFlight(u)
    /\ now' = now + 1
    /\ day' = IF DayOf(now + 1) # DayOf(now)
              THEN NewDay(users, [u \in Users |->
                                    /\ day.had[u]
                                    /\ day.msgs[u] = 0
                                    /\ ~day.failed[u]])
              ELSE day
    /\ UNCHANGED <<users, jobs, phase, handler, firings, calls, blocked, calc>>

Tick == Advance(MaxNow)

\* ------------------------------------------------ handlers (bot.py etc.)
\* History: the number of finished calls of schedule_daily_job or
\* schedule_job_with_jobqueue for a user since the process started and the
\* time of day the last one was given; ref is the code of the last /start
\* that named another referrer than the stored one.
NoCalls == [n |-> 0, t |-> None, ref |-> None]

\* The dispatcher runs one handler at a time; handler holds the one that is
\* part-way through, at the granularity of its store and job-queue calls.
IdleHandler == [op |-> "idle", pc |-> "idle", uid |-> 0, t |-> None]

HandlerFree == phase = "running" /\ handler.op = "idle" /\ NoDue

\* The handlers that arm a job are followed up to MaxCalls finished calls of
\* schedule_daily_job per user and process run.
CanSchedule(u) == calls[u].n < MaxCalls

\* A whole store update made by a handler.
HandlerWrite(us) ==
    /\ users' = us
    /\ firings' = Touch(firings, users, us, 0)

\* referral.py generate_referral_code / assign_referral_code: the code of a
\* user is chosen once and differs from every stored code; the model takes
\* the user's own id as that fresh code.
\* assign_referral_code without the write of line 62.
assign_referral_code_unstored(us, u) == us

assign_referral_code(us, u) ==
    IF us[u].exists /\ us[u].referral_code # None THEN us
    ELSE add_or_update_user(us, u, None, None, None, None, u, None)

get_user_by_referral_code(us, code) ==
    IF \E v \in Users : us[v].exists /\ us[v].referral_code = code
    THEN CHOOSE v \in Users : us[v].exists /\ us[v].referral_code = code
    ELSE 0

\* handle_referral without the test of lines 92-93.
handle_referral_overwriting(us, ref_code, new_user_id) ==
    LET referrer == get_user_by_referral_code(us, ref_code)
    IN IF ref_code = None THEN us
       ELSE IF referrer = 0 \/ referrer = new_user_id THEN us
       ELSE update_points(
              add_or_update_user(us, new_user_id, None, None, None, None, None, ref_code),
              referrer, REFERRAL_BONUS_POINTS)

\* handle_referral without the self-referral test of line 89.
handle_referral_own_code(us, ref_code, new_user_id) ==
    LET referrer == get_user_by_referral_code(us, ref_code)
    IN IF ref_code = None THEN us
       ELSE IF referrer = 0 THEN us
       ELSE IF us[new_user_id].exists /\ us[new_user_id].referred_by # None THEN us
       ELSE update_points(
              add_or_update_user(us, new_user_id, None, None, None, None, None, ref_code),
              referrer, REFERRAL_BONUS_POINTS)

handle_referral(us, ref_code, new_user_id) ==
    LET referrer == get_user_by_referral_code(us, ref_code)
    IN IF ref_code = None THEN us
       ELSE IF referrer = 0 \/ referrer = new_user_id THEN us
       ELSE IF us[new_user_id].exists /\ us[new_user_id].referred_by # None THEN us
       ELSE update_points(
              add_or_update_user(us, new_user_id, None, None, None, None, None, ref_code),
              referrer, REFERRAL_BONUS_POINTS)

\* referral.py generate_referral_code with the codes drawn rather than fixed:
\* Codes are the texts random.choices can give, one more than there are
\* users.
Codes == 1 .. (Cardinality(Users) + 1)

\* assign_referral_code without the loop of lines 58-59.
FreshCode_any(us) == Codes

\* Lines 57-59: the loop ends with a code get_user_by_referral_code finds
\* no user for.
FreshCode(us) == {code \in Codes : get_user_by_referral_code(us, code) = 0}

\* The test of bot.py line 254 never finding a complete profile.
ProfileComplete_never(user) == FALSE

ProfileComplete(user) ==
    user.exists /\ user.name # None /\ user.birth_date # None /\ user.birth_time # None

\* History: /start of user u names the code of another user while the row
\* of u holds a different referrer.
Overriding(us, u, code) ==
    /\ code # None
    /\ get_user_by_referral_code(us, code) \notin {0, u}
    /\ us[u].exists /\ us[u].referred_by \notin {None, code}

\* bot.py start: the referral argument, then either the greeting of a known
\* user, whose job is armed again, or the start of the registration dialogue.
start(u, code) ==
    /\ HandlerFree
    /\ CanSchedule(u)
    /\ LET us == handle_referral(users, code, u)
           user == get_user(us, u)
       IN /\ us # users => \A v \in Users : us[v].points <= MaxPoints
          /\ HandlerWrite(us)
          /\ handler' = IF ProfileComplete(user) /\ user.schedule_time # None
                        THEN [op |-> "resched", pc |-> "remove", uid |-> u,
                              t |-> user.schedule_time]
                        ELSE IdleHandler
    /\ calls' = IF Overriding(users, u, code)
                THEN [calls EXCEPT ![u].ref = code] ELSE calls
    /\ UNCHANGED <<jobs, now, phase, day, blocked>>

Start(u, code) == start(u, code) /\ UNCHANGED calc

\* bot.py complete_registration, the last step of the dialogue that start
\* opens for a user without a complete profile.
complete_registration(u, x) ==
    /\ HandlerFree
    /\ CanSchedule(u)
    /\ ~ProfileComplete(users[u])
    /\ LET notify_time == parse_time_str(x)
           trial_end == now + Days(TRIAL_DAYS)
           us1 == add_or_update_user(users, u, 1, 1, 1, notify_time, None, None)
           us2 == assign_referral_code(us1, u)
           us3 == set_trial_expiration(us2, u, trial_end)
           us4 == set_subscription_status(us3, u, TRUE, trial_end, FALSE, 1)
       IN IF notify_time = None
          THEN UNCHANGED <<users, firings, handler>>
          ELSE /\ HandlerWrite(us4)
               /\ handler' = [op |-> "register", pc |-> "remove", uid |-> u,
                              t |-> notify_time]
    /\ UNCHANGED <<jobs, now, phase, day, calls, blocked>>

CompleteRegistration(u, x) == complete_registration(u, x) /\ UNCHANGED calc

\* bot.py handle_time_change, after /settime by a stored user.
handle_time_change(u, x) ==
    /\ HandlerFree
    /\ CanSchedule(u)
    /\ users[u].exists
    /\ LET new_time == parse_time_str(x)
       IN IF new_time = None
          THEN UNCHANGED <<users, firings, handler>>
          ELSE /\ HandlerWrite(set_schedule_time(users, u, new_time))
               /\ handler' = [op |-> "resched", pc |-> "remove", uid |-> u,
                              t |-> new_time]
    /\ UNCHANGED <<jobs, now, phase, day, calls, blocked>>

HandleTimeChange(u, x) == handle_time_change(u, x) /\ UNCHANGED calc

\* parse_date: a well-formed date is kept under its own name, BadTime stands
\* for every rejected text here too.
parse_date(x) == IF x = BadTime THEN None ELSE x

\* handle_update_selection, lines 562-567; the row of the model has no
\* birth place.
UpdateFields == {"name", "birth_date", "birth_time"}
UpdateInputs == {1, BadTime}

\* bot.py handle_update_value, for a stored user (update_personal_data,
\* lines 529-534) and the field chosen in handle_update_selection.
handle_update_value(u, field, x) ==
    /\ HandlerFree
    /\ users[u].exists
    /\ LET new_value == IF field = "birth_date" THEN parse_date(x)
                        ELSE IF field = "birth_time" THEN parse_time_str(x)
                        ELSE x
           arg(f) == IF field = f THEN new_value ELSE None
       IN IF new_value = None
          THEN UNCHANGED <<users, firings>>
          ELSE HandlerWrite(add_or_update_user(users, u, arg("name"), arg("birth_date"),
                                               arg("birth_time"), None, None, None))
    /\ UNCHANGED <<jobs, now, phase, handler, day, calls, blocked>>

HandleUpdateValue(u, field, x) == handle_update_value(u, field, x) /\ UNCHANGED calc

\* schedule_daily_job / schedule_job_with_jobqueue, first half: every job
\* with the user's name is removed.
SchedRemove ==
    /\ handler.pc = "remove"
    /\ jobs' = schedule_removal(jobs, handler.uid)
    /\ handler' = [handler EXCEPT !.pc = "add"]
    /\ UNCHANGED <<users, now, phase, firings, day, calls, blocked, calc>>

\* Second half: the time is parsed and a new job is armed; a text that does
\* not parse arms nothing.
SchedAdd ==
    /\ handler.pc = "add"
    /\ jobs' = IF handler.t \in Times
               THEN run_daily(jobs, handler.uid, handler.t, now)
               ELSE jobs
    /\ handler' = IF handler.op = "boot"
                  THEN [handler EXCEPT !.pc = "loop", !.uid = @ + 1, !.t = None]
                  ELSE IdleHandler
    /\ calls' = [calls EXCEPT ![handler.uid] =
                    [@ EXCEPT !.n = @ + 1, !.t = handler.t]]
    /\ UNCHANGED <<users, now, phase, firings, day, blocked, calc>>

\* bot.py show_referrals, lines 460-468: a stored user asks for the referral
\* link, and assign_referral_code (referral.py lines 53-63) returns the code
\* the row holds or draws and stores a new one.  calc notes the code returned
\* and whether the row held it.
ShowReferrals(u) ==
    /\ HandlerFree
    /\ users[u].exists
    /\ IF users[u].referral_code # None
       THEN /\ users' = users
            /\ calc' = [op |-> "code", uid |-> u, code |-> users[u].referral_code,
                        held |-> TRUE]
       ELSE \E code \in FreshCode(users) :
               /\ users' = add_or_update_user(users, u, None, None, None, None, code, None)
               /\ calc' = [op |-> "code", uid |-> u, code |-> code, held |-> FALSE]
    /\ UNCHANGED <<jobs, now, phase, handler, firings, day, calls, blocked>>

\* --------------------------------------------------- the text of a time
\* parse_time_str and the parsing in schedule_daily_job, on texts: a text is
\* a sequence of characters.
\* None, where the other value is a text or a pair: Optional[str] of line 78
\* and the except branch of lines 108-110.
NoText == << >>

DigitChars == << "0", "1", "2", "3", "4", "5", "6", "7", "8", "9" >>

IsDigit(c) == \E d \in 1 .. Len(DigitChars) : DigitChars[d] = c

DigitOf(c) == (CHOOSE d \in 1 .. Len(DigitChars) : DigitChars[d] = c) - 1

\* int() of a text made of digits.
RECURSIVE IntOf(_)
IntOf(s) == IF s = << >> THEN 0 ELSE 10 * IntOf(SubSeq(s, 1, Len(s) - 1)) + DigitOf(s[Len(s)])

AllDigits(s) == s # << >> /\ \A k \in 1 .. Len(s) : IsDigit(s[k])

\* str.strip().
RECURSIVE strip(_)
strip(s) ==
    IF s = << >> THEN s
    ELSE IF s[1] = " " THEN strip(Tail(s))
    ELSE IF s[Len(s)] = " " THEN strip(SubSeq(s, 1, Len(s) - 1))
    ELSE s

\* f"{n:02d}".
TwoDigits(n) == << DigitChars[(n \div 10) + 1], DigitChars[(n % 10) + 1] >>

\* The position of the first ":" of a text, 0 when it has none.
Colon(s) ==
    IF \E k \in 1 .. Len(s) : s[k] = ":"
    THEN CHOOSE k \in 1 .. Len(s) : s[k] = ":" /\ \A j \in 1 .. (k - 1) : s[j] # ":"
    ELSE 0

\* re.fullmatch(r"(\d{1,2}):(\d{2})", text), line 83: the two groups, or
\* None.
fullmatch(s) ==
    LET k == Colon(s)
        hour == SubSeq(s, 1, k - 1)
        minute == SubSeq(s, k + 1, Len(s))
    IN IF k \in {2, 3} /\ AllDigits(hour) /\ Len(minute) = 2 /\ AllDigits(minute)
       THEN << hour, minute >>
       ELSE NoText

\* parse_time_str without the range test of line 88.
parse_time_text_unranged(time_str) ==
    LET match == fullmatch(strip(time_str))
    IN IF match = NoText THEN NoText
       ELSE TwoDigits(IntOf(match[1])) \o << ":" >> \o TwoDigits(IntOf(match[2]))

\* parse_time_str, lines 78-90, on texts.
parse_time_text(time_str) ==
    LET match == fullmatch(strip(time_str))
    IN IF match = NoText THEN NoText
       ELSE LET hour == IntOf(match[1])
                minute == IntOf(match[2])
            IN IF hour < 0 \/ hour > 23 \/ minute < 0 \/ minute > 59 THEN NoText
               ELSE TwoDigits(hour) \o << ":" >> \o TwoDigits(minute)

\* schedule_daily_job lines 105-110 (and schedule_job_with_jobqueue lines
\* 130-135): map(int, schedule_str.split(":")) must give two numbers and
\* time(hour=, minute=) must take them; NoText is the except branch.
target_time(schedule_str) ==
    LET k == Colon(schedule_str)
        hour == strip(SubSeq(schedule_str, 1, k - 1))
        minute == strip(SubSeq(schedule_str, k + 1, Len(schedule_str)))
    IN IF k = 0 \/ Colon(minute) # 0 \/ ~AllDigits(hour) \/ ~AllDigits(minute)
       THEN NoText
       ELSE IF IntOf(hour) > 23 \/ IntOf(minute) > 59 THEN NoText
       ELSE << IntOf(hour), IntOf(minute) >>

\* A handler is given a text, parses it, and stores and schedules what the
\* parser returns.
ParseTimeText ==
    /\ calc.op = "time_text" /\ calc.pc = "parse"
    /\ calc' = [calc EXCEPT !.pc = IF parse_time_text(calc.text) = NoText THEN "rejected" ELSE "store",
                            !.schedule_time = parse_time_text(calc.text)]
    /\ UNCHANGED <<users, jobs, now, phase, handler, firings, day, calls, blocked>>

ScheduleTimeText ==
    /\ calc.op = "time_text" /\ calc.pc = "store"
    /\ calc' = [calc EXCEPT !.pc = "scheduled", !.target_time = target_time(calc.schedule_time)]
    /\ UNCHANGED <<users, jobs, now, phase, handler, firings, day, calls, blocked>>

\* ------------------------------------------------------------ /subscribe
\* config.py line 67: os.environ.get("1744374395:TEST:...", "YOUR_PROVIDER_TOKEN_HERE").
\* The first argument is the NAME of the variable looked up, so the token is
\* the placeholder unless the environment holds a variable of that name;
\* environ is the value of that variable, "unset" when there is none.
Environs == {"unset", "provider-token"}

PAYMENT_PROVIDER_TOKEN(environ) == IF environ = "unset" THEN "YOUR_PROVIDER_TOKEN_HERE" ELSE environ

\* payments.send_subscription_invoice, lines 23-73: context.bot.send_invoice
\* returns when Telegram took the invoice and raises TelegramError when the
\* provider token is not one of a provider or the request fails (delivered
\* is FALSE).
send_subscription_invoice(provider_token, delivered) ==
    provider_token # "YOUR_PROVIDER_TOKEN_HERE" /\ delivered

\* subscribe, lines 483-506: what the user is sent.
subscribe(user, provider_token, delivered) ==
    IF ~user.exists THEN "register_first"
    ELSE IF user.subscription_active THEN "already_active"
    ELSE IF send_subscription_invoice(provider_token, delivered) THEN "invoice"
    ELSE "unavailable"

Subscribe(u) ==
    /\ HandlerFree
    /\ calc.op = "subscribe"
    /\ \E delivered \in BOOLEAN :
          calc' = [calc EXCEPT !.uid = u, !.user = get_user(users, u), !.now = now,
                               !.turn = 1 - calc.turn,
                               !.sent = subscribe(get_user(users, u), PAYMENT_PROVIDER_TOKEN(calc.environ), delivered)]
    /\ UNCHANGED <<users, jobs, now, phase, handler, firings, day, calls, blocked>>

\* ------------------------------------------------- the row, all columns
\* add_or_update_user on a row with every column of the users table that the
\* function names: row is the row SELECTed at lines 133-136 (NoRow when
\* there is none), args the keyword arguments.
ArgColumns == {"name", "birth_date", "birth_place", "birth_time", "schedule_time", "referral_code", "referred_by"}
KeptColumns == {"points", "subscription_active", "subscription_expiration", "registration_date"}

NoRow == << >>

\* add_or_update_user with an UPDATE that sets every argument, None or not.
add_or_update_row_all_fields(row, args, registration_date) ==
    IF row # NoRow
    THEN [c \in DOMAIN row |-> IF c \in ArgColumns THEN args[c] ELSE row[c]]
    ELSE row

\* Lines 128-186: the dynamic UPDATE of an existing row (139-164), the
\* INSERT of a new one (166-185).
add_or_update_row(row, args, registration_date) ==
    IF row # NoRow
    THEN [c \in DOMAIN row |-> IF c \in ArgColumns /\ args[c] # None THEN args[c] ELSE row[c]]
    ELSE [c \in ArgColumns \cup KeptColumns |->
            IF c \in ArgColumns THEN args[c]
            ELSE IF c = "points" THEN 0
            ELSE IF c = "subscription_active" THEN 0
            ELSE IF c = "subscription_expiration" THEN None
            ELSE registration_date]

AddOrUpdateRow ==
    /\ calc.op = "row" /\ calc.pc = "call"
    /\ calc' = [calc EXCEPT !.pc = "done", !.after = add_or_update_row(calc.row, calc.args, calc.now)]
    /\ UNCHANGED <<users, jobs, now, phase, handler, firings, day, calls, blocked>>

\* ---------------------------------------------------- the conversations
\* The three ConversationHandlers of main (lines 766-796) for one user: calc
\* holds the state of each conversation, the field chosen for /update, and
\* a note of the last message handled (its handler and its text); turn
\* changes with every message.  A text goes to the first conversation, in
\* the order they are added to the dispatcher, that is in a state.
NoDialogue ==
    [op |-> "dialogue", registration |-> "END", settime |-> "END", update |-> "END",
     field |-> None, turn |-> 0, last |-> "none", text |-> None]

Said(c, h, x) == [c EXCEPT !.turn = 1 - @, !.last = h, !.text = x]

Quiet == UNCHANGED <<users, jobs, now, phase, handler, firings, day, calls, blocked>>

\* /start, the entry point of the registration conversation (lines 253-269).
StartCommand(u, code) ==
    /\ calc.op = "dialogue" /\ calc.registration = "END"
    /\ start(u, code)
    /\ calc' = Said([calc EXCEPT !.registration =
                        IF ProfileComplete(users'[u]) THEN "END" ELSE "NAME"],
                    "start", code)

\* Lines 272-280.
AskBirthDate(u, x) ==
    /\ calc.op = "dialogue" /\ calc.registration = "NAME"
    /\ HandlerFree
    /\ calc' = Said([calc EXCEPT !.registration = "BIRTH_DATE"], "ask_birth_date", x)
    /\ Quiet

\* Lines 283-296.
AskBirthPlace(u, x) ==
    /\ calc.op = "dialogue" /\ calc.registration = "BIRTH_DATE"
    /\ HandlerFree
    /\ calc' = Said([calc EXCEPT !.registration =
                        IF parse_date(x) = None THEN "BIRTH_DATE" ELSE "BIRTH_PLACE"],
                    "ask_birth_place", x)
    /\ Quiet

\* Lines 299-305.
AskBirthTime(u, x) ==
    /\ calc.op = "dialogue" /\ calc.registration = "BIRTH_PLACE"
    /\ HandlerFree
    /\ calc' = Said([calc EXCEPT !.registration = "BIRTH_TIME"], "ask_birth_time", x)
    /\ Quiet

\* Lines 308-321.
AskNotifyTime(u, x) ==
    /\ calc.op = "dialogue" /\ calc.registration = "BIRTH_TIME"
    /\ HandlerFree
    /\ calc' = Said([calc EXCEPT !.registration =
                        IF parse_time_str(x) = None THEN "BIRTH_TIME" ELSE "NOTIFY_TIME"],
                    "ask_notify_time", x)
    /\ Quiet

\* Lines 324-366.
NotifyTimeText(u, x) ==
    /\ calc.op = "dialogue" /\ calc.registration = "NOTIFY_TIME"
    /\ complete_registration(u, x)
    /\ calc' = Said([calc EXCEPT !.registration =
                        IF parse_time_str(x) = None THEN "NOTIFY_TIME" ELSE "END"],
                    "complete_registration", x)

\* /settime, lines 423-437: a stored user is asked for the new time.
SetTimeCommand(u) ==
    /\ calc.op = "dialogue" /\ calc.settime = "END"
    /\ HandlerFree
    /\ calc' = Said([calc EXCEPT !.settime = IF users[u].exists THEN "CHANGE_TIME" ELSE "END"],
                    "set_time_command", None)
    /\ Quiet

\* Lines 440-456.
ChangeTimeText(u, x) ==
    /\ calc.op = "dialogue" /\ calc.registration = "END" /\ calc.settime = "CHANGE_TIME"
    /\ handle_time_change(u, x)
    /\ calc' = Said([calc EXCEPT !.settime =
                        IF parse_time_str(x) = None THEN "CHANGE_TIME" ELSE "END"],
                    "handle_time_change", x)

\* /update, lines 526-549.
UpdateCommand(u) ==
    /\ calc.op = "dialogue" /\ calc.update = "END"
    /\ HandlerFree
    /\ calc' = Said([calc EXCEPT !.update = IF users[u].exists THEN "SELECT_FIELD" ELSE "END"],
                    "update_personal_data", None)
    /\ Quiet

\* Lines 551-587, for the choice of a field.
UpdateSelection(u, field) ==
    /\ calc.op = "dialogue" /\ calc.registration = "END" /\ calc.settime = "END"
    /\ calc.update = "SELECT_FIELD"
    /\ HandlerFree
    /\ calc' = Said([calc EXCEPT !.update = "TYPING_VALUE", !.field = field],
                    "handle_update_selection", None)
    /\ Quiet

\* Lines 590-619: the conversation ends whether or not the text is taken.
UpdateText(u, x) ==
    /\ calc.op = "dialogue" /\ calc.registration = "END" /\ calc.settime = "END"
    /\ calc.update = "TYPING_VALUE"
    /\ handle_update_value(u, calc.field, x)
    /\ calc' = Said([calc EXCEPT !.update = "END"], "handle_update_value", x)

\* -------------------------------------------- concurrent update_points
\* database.py update_points, lines 232-247, statement by statement, called
\* by several threads for the same user: the lock of line 232, the SELECT of
\* lines 235-238, the UPDATE of lines 242-247, the end of the with block.
Callers == 1 .. 3
Deltas == {0, 1, REFERRAL_BONUS_POINTS}
Payer == 1

\* A lock anyone can take at any time.
Acquirable_always(lock) == TRUE

\* threading.Lock: free when no thread holds it.
Acquirable(lock) == lock = 0

PointsAcquire(c) ==
    /\ calc.op = "points"
    /\ calc.pc[c] = "call"
    /\ Acquirable(calc.lock)
    /\ calc' = [calc EXCEPT !.lock = c, !.pc[c] = "select"]
    /\ UNCHANGED <<users, jobs, now, phase, handler, firings, day, calls, blocked>>

PointsSelect(c) ==
    /\ calc.op = "points"
    /\ calc.pc[c] = "select"
    /\ calc' = [calc EXCEPT !.current_points[c] = users[Payer].points, !.pc[c] = "update"]
    /\ UNCHANGED <<users, jobs, now, phase, handler, firings, day, calls, blocked>>

PointsUpdate(c) ==
    /\ calc.op = "points"
    /\ calc.pc[c] = "update"
    /\ LET new_points == Max(0, calc.current_points[c] + calc.delta[c])
       IN users' = [users EXCEPT ![Payer].points = new_points]
    /\ calc' = [calc EXCEPT !.pc[c] = "release"]
    /\ UNCHANGED <<jobs, now, phase, handler, firings, day, calls, blocked>>

PointsRelease(c) ==
    /\ calc.op = "points"
    /\ calc.pc[c] = "release"
    /\ calc' = [calc EXCEPT !.lock = IF @ = c THEN 0 ELSE @, !.pc[c] = "done"]
    /\ UNCHANGED <<users, jobs, now, phase, handler, firings, day, calls, blocked>>

\* ------------------------------------------------------------ broadcast
\* database.py get_all_users: the stored rows, in the order of their ids.
RECURSIVE Ascending(_)
Ascending(S) ==
    IF S = {} THEN << >>
    ELSE LET least == CHOOSE x \in S : \A y \in S : x <= y
         IN << least >> \o Ascending(S \ {least})

get_all_users(us) == Ascending({u \in Users : us[u].exists})

\* The test of bot.py line 625 with everyone let through.
is_admin_anyone(telegram_id, ADMIN_IDS) == TRUE

\* bot.py line 625.
is_admin(telegram_id, ADMIN_IDS) == telegram_id \in ADMIN_IDS

\* The handler at rest, under a configuration that names ADMIN_IDS.
NoBroadcast(ADMIN_IDS) ==
    [op |-> "broadcast", admins |-> ADMIN_IDS, pc |-> "idle", invoker |-> 0,
     ids |-> << >>, k |-> 1, count |-> 0, attempted |-> {}, delivered |-> {},
     reply |-> "none", reported |-> None]

\* bot.py broadcast, lines 624-634: the tests of the invoker and of the
\* arguments, then the read of the users.
Broadcast(u, has_text) ==
    /\ calc.op = "broadcast" /\ calc.pc = "idle"
    /\ HandlerFree
    /\ LET call == [NoBroadcast(calc.admins) EXCEPT !.invoker = u]
       IN calc' = IF ~is_admin(u, calc.admins)
                  THEN [call EXCEPT !.pc = "done", !.reply = "denied"]
                  ELSE IF ~has_text
                  THEN [call EXCEPT !.pc = "done", !.reply = "usage"]
                  ELSE [call EXCEPT !.pc = "loop", !.ids = get_all_users(users)]
    /\ UNCHANGED <<users, jobs, now, phase, handler, firings, day, calls, blocked>>

\* Lines 635-640: one turn of the loop; an exception of send_message is
\* caught and logged, and only a send that returned is counted.
BroadcastSend ==
    /\ calc.op = "broadcast" /\ calc.pc = "loop"
    /\ calc.k <= Len(calc.ids)
    /\ \E outcome \in Outcomes :
          LET id == calc.ids[calc.k]
          IN calc' = [calc EXCEPT !.k = @ + 1,
                                  !.attempted = @ \cup {id},
                                  !.delivered = IF outcome = "ok" THEN @ \cup {id} ELSE @,
                                  !.count = IF outcome = "ok" THEN @ + 1 ELSE @]
    /\ UNCHANGED <<users, jobs, now, phase, handler, firings, day, calls, blocked>>

\* Line 641: the count is reported to the invoker.
BroadcastReply ==
    /\ calc.op = "broadcast" /\ calc.pc = "loop"
    /\ calc.k > Len(calc.ids)
    /\ calc' = [calc EXCEPT !.pc = "done", !.reply = "count", !.reported = calc.count]
    /\ UNCHANGED <<users, jobs, now, phase, handler, firings, day, calls, blocked>>

\* The handler has returned; the next /broadcast can come.
BroadcastReturn ==
    /\ calc.op = "broadcast" /\ calc.pc = "done"
    /\ calc' = NoBroadcast(calc.admins)
    /\ UNCHANGED <<users, jobs, now, phase, handler, firings, day, calls, blocked>>

\* payments.py handle_successful_payment, lines 103-120: now is timezone-aware
\* there, so comparing it with an expiration stored without an offset raises
\* TypeError and the handler ends without a write.
PaymentRaises(user) ==
    user.exists /\ user.subscription_active
    /\ user.subscription_expiration # None /\ ~user.exp_aware

PaymentBase(user, n) ==
    IF user.exists /\ user.subscription_active /\ user.subscription_expiration # None
    THEN IF user.subscription_expiration > n THEN user.subscription_expiration ELSE n
    ELSE n

handle_successful_payment(u) ==
    /\ HandlerFree
    /\ users[u].exists
    /\ users[u].points + REFERRAL_BONUS_POINTS <= MaxPoints
    /\ LET existing == get_user(users, u)
           new_expiration == PaymentBase(existing, now) + Days(SUBSCRIPTION_DURATION_DAYS)
       IN IF PaymentRaises(existing)
          THEN UNCHANGED <<users, firings, handler>>
          ELSE /\ HandlerWrite(set_subscription_status(users, u, TRUE, new_expiration,
                                                       TRUE, None))
               /\ handler' = [op |-> "pay", pc |-> "points", uid |-> u, t |-> None]
    /\ UNCHANGED <<jobs, now, phase, day, calls, blocked>>

Payment(u) == handle_successful_payment(u) /\ UNCHANGED calc

\* The same handler with a note of the update it received: who paid, the row
\* read at line 104 and the instant of line 105.
PaymentReceived(u) ==
    /\ handle_successful_payment(u)
    /\ calc' = [op |-> "payment", uid |-> u, existing |-> get_user(users, u), now |-> now]

\* payments.py line 124.
PaymentPoints ==
    /\ handler.pc = "points"
    /\ HandlerWrite(update_points(users, handler.uid, REFERRAL_BONUS_POINTS))
    /\ handler' = IdleHandler
    /\ UNCHANGED <<jobs, now, phase, day, calls, blocked, calc>>

\* The buttons of the reminder, bot.py lines 189-190 (the longer terms of
\* lines 191-193 behave alike).
ExtendDays == {30, 60}

\* bot.py handle_extension_callback, lines 732-739: the new expiration is
\* counted from now, whatever the row holds.
ExtendCallback(u, days) ==
    /\ HandlerFree
    /\ LET new_expiration == now + Days(days)
       IN /\ HandlerWrite(set_subscription_status(users, u, TRUE, new_expiration, FALSE, 0))
          /\ handler' = [op |-> "extend", pc |-> "clear", uid |-> u, t |-> None]
    /\ UNCHANGED <<jobs, now, phase, day, calls, blocked, calc>>

\* Line 741.
ExtendClearTrial ==
    /\ handler.pc = "clear"
    /\ HandlerWrite(clear_trial(users, handler.uid))
    /\ handler' = IdleHandler
    /\ UNCHANGED <<jobs, now, phase, day, calls, blocked, calc>>

\* ------------------------------------------------- process stop and main
\* The process stops: the job queue, the running jobs and the running
\* handler are lost; the store stays.
Crash ==
    /\ phase = "running"
    /\ phase' = "down"
    /\ jobs' = [u \in Users |-> << >>]
    /\ firings' = [i \in Slots |-> IdleFiring]
    /\ handler' = IdleHandler
    /\ calls' = [u \in Users |-> NoCalls]
    /\ day' = [day EXCEPT !.failed = [u \in Users |-> TRUE]]
    /\ UNCHANGED <<users, now, blocked, calc>>

\* The test of line 759 with its condition inverted.
HasDeliveryTime_inverted(user) == user.exists /\ user.schedule_time = None

\* Line 759: if user["schedule_time"], for a row get_all_users returned.
HasDeliveryTime(user) == user.exists /\ user.schedule_time # None

FirstUser == CHOOSE u \in Users : \A v \in Users : u <= v

\* bot.py main, lines 750-757.
Boot ==
    /\ phase = "down"
    /\ phase' = "starting"
    /\ handler' = [op |-> "boot", pc |-> "loop", uid |-> FirstUser, t |-> None]
    /\ UNCHANGED <<users, jobs, now, firings, day, calls, blocked, calc>>

\* Lines 758-764, one user of the loop, and line 822 after the last one.
BootLoop ==
    /\ handler.op = "boot"
    /\ handler.pc = "loop"
    /\ IF handler.uid \notin Users
       THEN /\ phase' = "running"
            /\ handler' = IdleHandler
       ELSE /\ handler' = IF HasDeliveryTime(users[handler.uid])
                           THEN [handler EXCEPT !.pc = "remove",
                                                !.t = users[handler.uid].schedule_time]
                           ELSE [handler EXCEPT !.uid = @ + 1]
            /\ UNCHANGED phase
    /\ UNCHANGED <<users, jobs, now, firings, day, calls, blocked, calc>>

\* ---------------------------------------------------------- astrology.py
\* Angles are counted in tenths of a degree.
Tenths == 10
Deg(d) == d * Tenths
Circle == Deg(360)

Abs(x) == IF x < 0 THEN 0 - x ELSE x
Min(a, b) == IF a <= b THEN a ELSE b

\* Line 32; a dict keeps the order in which _get_ecliptic_longitudes fills
\* it, which is the order of this list.
PLANETS == <<"sun", "moon", "mercury", "venus", "mars", "jupiter", "saturn">>
Bodies == {PLANETS[k] : k \in 1 .. Len(PLANETS)}
Index(planet) == CHOOSE k \in 1 .. Len(PLANETS) : PLANETS[k] = planet

\* Line 131 without the normalisation of lines 133-134.
separation_unnormalised(natal_lon, current_lon) == Abs(current_lon - natal_lon) % Circle

\* Lines 131-134, the body of the loop of compute_transits.
separation(natal_lon, current_lon) ==
    LET diff == Abs(current_lon - natal_lon) % Circle
    IN IF diff > Deg(180) THEN Circle - diff ELSE diff

\* compute_transits with every body measured against the natal position of
\* the first body of the chart.
compute_transits_against_first(natal_positions, current_positions) ==
    LET both == DOMAIN natal_positions \cap DOMAIN current_positions
        first == CHOOSE q \in both : \A r \in both : Index(q) <= Index(r)
    IN [planet \in both |-> separation(natal_positions[first], current_positions[planet])]

\* compute_transits, lines 127-136: one entry per planet of the natal chart
\* that the current chart has too.
compute_transits(natal_positions, current_positions) ==
    [planet \in DOMAIN natal_positions \cap DOMAIN current_positions |->
        separation(natal_positions[planet], current_positions[planet])]

Aspect(low, high, name) == [low |-> low, high |-> high, name |-> name]

\* The list of lines 158-164 with windows of 6 and 4 degrees.
aspects_narrow ==
    << Aspect(Deg(0), Deg(6), "conjunction"),
       Aspect(Deg(60 - 4), Deg(60 + 4), "sextile"),
       Aspect(Deg(90 - 4), Deg(90 + 4), "square"),
       Aspect(Deg(120 - 4), Deg(120 + 4), "trine"),
       Aspect(Deg(180 - 6), Deg(180 + 6), "opposition") >>

\* interpret_transits, lines 158-164.
aspects ==
    << Aspect(Deg(0), Deg(10), "conjunction"),
       Aspect(Deg(60 - 5), Deg(60 + 5), "sextile"),
       Aspect(Deg(90 - 5), Deg(90 + 5), "square"),
       Aspect(Deg(120 - 5), Deg(120 + 5), "trine"),
       Aspect(Deg(180 - 10), Deg(180 + 10), "opposition") >>

\* Lines 266-271: the first window of the list that holds diff.
AspectName(diff) ==
    LET hits == {k \in 1 .. Len(aspects) : aspects[k].low <= diff /\ diff <= aspects[k].high}
    IN IF hits = {} THEN "none"
       ELSE aspects[CHOOSE k \in hits : \A j \in hits : k <= j].name

\* Lines 256-262: random.choice(reflective_questions) yields one of these.
Questions == 1 .. 5

\* A line of the text: the phrase of a planet under an aspect (every list
\* of planet_phrases, lines 166-254, has one phrase, so random.choice of
\* line 276 has one result), the line of lines 279-282, or a question.
Phrase(planet, aspect_name) == <<planet, aspect_name>>
QuietDay == <<"planets", "rest">>
Question(q) == <<"question", q>>

\* Lines 264-277: the loop over transits.items(), from the k-th planet on.
RECURSIVE PlanetLines(_, _)
PlanetLines(transits, k) ==
    IF k > Len(PLANETS) THEN << >>
    ELSE LET planet == PLANETS[k]
             here == IF planet \in DOMAIN transits
                     THEN (IF AspectName(transits[planet]) = "none" THEN << >>
                           ELSE << Phrase(planet, AspectName(transits[planet])) >>)
                     ELSE << >>
         IN here \o PlanetLines(transits, k + 1)

\* interpret_transits without the fallback of lines 278-282.
interpret_transits_without_fallback(transits, question) ==
    PlanetLines(transits, 1) \o << Question(question) >>

\* interpret_transits, lines 264-288; question is what random.choice of
\* line 285 returned.
interpret_transits(transits, question) ==
    LET messages == PlanetLines(transits, 1)
    IN (IF messages = << >> THEN << QuietDay >> ELSE messages) \o << Question(question) >>

\* ------------------------------------------------------- initial states
\* calc holds the arguments and the result of one call of a function of
\* astrology.py; the bot's own states carry NoCalc.
NoCalc == [op |-> "none"]


\* The store holds what earlier runs left in it.  InitExpirations are
\* expiration instants on both sides of the instants the model runs through.
InitExpirations == {1, Days(TRIAL_DAYS)}

Registered(u, t) ==
    [NoUser EXCEPT !.exists = TRUE, !.name = 1, !.birth_date = 1, !.birth_time = 1,
                   !.schedule_time = t, !.referral_code = u]

InitRows(u) ==
    {NoUser}
    \cup { [Registered(u, t) EXCEPT !.points = p] :
              t \in Times, p \in {0, REFERRAL_BONUS_POINTS} }
    \cup { [Registered(u, t) EXCEPT !.points = p, !.subscription_active = TRUE,
                                    !.subscription_expiration = e,
                                    !.is_trial = TRUE, !.trial_expiration = e] :
              t \in Times, p \in {0, REFERRAL_BONUS_POINTS}, e \in InitExpirations }
    \cup { [Registered(u, t) EXCEPT !.points = p, !.subscription_active = TRUE,
                                    !.subscription_expiration = e] :
              t \in Times, p \in {0, REFERRAL_BONUS_POINTS}, e \in InitExpirations }
    \cup { [Registered(u, t) EXCEPT !.points = REFERRAL_BONUS_POINTS,
                                    !.subscription_active = TRUE,
                                    !.subscription_expiration = e, !.exp_aware = TRUE] :
              t \in Times, e \in InitExpirations }

\* The process has started on the store us and armed the job of every user
\* with a delivery time.
Started(us) ==
    /\ users = us
    /\ jobs = [u \in Users |->
                 IF us[u].exists
                 THEN << Job(us[u].schedule_time, us[u].schedule_time) >>
                 ELSE << >>]
    /\ now = 0
    /\ phase = "running"
    /\ handler = IdleHandler
    /\ firings = [i \in Slots |-> IdleFiring]
    /\ day = NewDay(us, [u \in Users |-> FALSE])
    /\ calls = [u \in Users |->
                  IF us[u].exists
                  THEN [NoCalls EXCEPT !.n = 1, !.t = us[u].schedule_time]
                  ELSE NoCalls]
    /\ blocked = [u \in Users |-> None]

Init ==
    /\ calc = NoCalc
    /\ \E rows \in [Subscribers -> UNION {InitRows(u) : u \in Subscribers}] :
          /\ \A u \in Subscribers : rows[u] \in InitRows(u)
          /\ Started([u \in Users |-> IF u \in Subscribers THEN rows[u] ELSE NoUser])

\* A store with one registered user who holds the bonus days of one referral
\* and neither a subscription nor a trial.
InitBonus ==
    /\ calc = NoCalc
    /\ \E t \in Times :
        Started([u \in Users |->
                   IF u \in Subscribers
                   THEN [Registered(u, t) EXCEPT !.points = REFERRAL_BONUS_POINTS]
                   ELSE NoUser])

\* A store with two users who both have a delivery time.
Recipients == {1, 2}

InitTwo ==
    /\ calc = NoCalc
    /\ \E rows \in [Recipients -> UNION {InitRows(u) \ {NoUser} : u \in Recipients}] :
          /\ \A u \in Recipients : rows[u] \in InitRows(u)
          /\ Started([u \in Users |-> IF u \in Recipients THEN rows[u] ELSE NoUser])

\* A store with two users in every state a payment can meet, among them a
\* paid subscription whose expiration a payment wrote.
PaidRows(u) ==
    { [Registered(u, t) EXCEPT !.subscription_active = TRUE,
                               !.subscription_expiration = e, !.exp_aware = TRUE] :
         t \in Times, e \in InitExpirations }

\* A store with one registered user, whose code is any of the codes, and two
\* people who have not met the bot yet; no delivery is due.
InitCodes ==
    /\ calc = NoCalc
    /\ \E t \in Times \ {0} : \E code \in Codes :
        Started([u \in Users |->
                   IF u \in Subscribers
                   THEN [Registered(u, t) EXCEPT !.referral_code = code]
                   ELSE NoUser])

\* Any set of stored users, none with a delivery due, under any ADMIN_IDS.
InitBroadcast ==
    /\ \E ADMIN_IDS \in SUBSET Users : calc = NoBroadcast(ADMIN_IDS)
    /\ \E stored \in SUBSET Users : \E t \in Times \ {0} :
          Started([u \in Users |-> IF u \in stored THEN Registered(u, t) ELSE NoUser])

\* Three calls of update_points for one stored user are about to be made,
\* each with a credit of its own.
InitPoints ==
    /\ \E p \in {0, REFERRAL_BONUS_POINTS} : \E t \in Times \ {0} :
          /\ Started([u \in Users |->
                        IF u = Payer THEN [Registered(u, t) EXCEPT !.points = p] ELSE NoUser])
          /\ \E delta \in [Callers -> Deltas] :
                calc = [op |-> "points", lock |-> 0, initial |-> p, delta |-> delta,
                        pc |-> [c \in Callers |-> "call"],
                        current_points |-> [c \in Callers |-> None]]

\* One person, stored with a complete profile or not at all, in no
\* conversation; no delivery is due.
InitDialogue ==
    /\ calc = NoDialogue
    /\ \E t \in Times \ {0} : \E row \in {NoUser, Registered(1, t)} :
          Started([u \in Users |-> IF u \in Subscribers THEN row ELSE NoUser])

\* The texts a user can send for a time: up to five characters, among them
\* digits that make hours and minutes in and out of range.
TimeChars == {"0", "2", "6", ":", " ", "a"}
TimeTexts == UNION {[1 .. n -> TimeChars] : n \in 0 .. 5}

InitTimeText ==
    /\ Started([u \in Users |-> NoUser])
    /\ \E text \in TimeTexts :
          calc = [op |-> "time_text", pc |-> "parse", text |-> text,
                  schedule_time |-> NoText, target_time |-> NoText]

\* Every row of old values, or none, and every choice of arguments: an
\* old value is 0 or NULL, a new value 1; the call is made at time 1.
OldRows ==
    {r \in [ArgColumns \cup KeptColumns -> {None, 0, 1, REFERRAL_BONUS_POINTS}] :
        /\ \A c \in ArgColumns : r[c] \in {None, 0}
        /\ r["points"] \in {0, REFERRAL_BONUS_POINTS}
        /\ r["subscription_active"] \in {0, 1}
        /\ r["subscription_expiration"] \in {None, 1}
        /\ r["registration_date"] = 0}

InitRow ==
    /\ Started([u \in Users |-> NoUser])
    /\ \E row \in OldRows \cup {NoRow} : \E args \in [ArgColumns -> {None, 1}] :
          calc = [op |-> "row", pc |-> "call", row |-> row, args |-> args, now |-> 1, after |-> NoRow]

\* Two people, each unknown, registered, on trial or subscribed (expiring
\* at tick 1 or later), and an environment with or without the variable.
InitSubscribe ==
    /\ \E rows \in [Recipients -> UNION {InitRows(u) : u \in Recipients}] :
          /\ \A u \in Recipients : rows[u] \in InitRows(u)
          /\ Started([u \in Users |-> IF u \in Recipients THEN rows[u] ELSE NoUser])
    /\ \E environ \in Environs :
          calc = [op |-> "subscribe", environ |-> environ, uid |-> 0, user |-> NoUser,
                  now |-> 0, turn |-> 0, sent |-> "nothing"]

InitPayment ==
    /\ calc = NoCalc
    /\ \E rows \in [Recipients -> UNION {(InitRows(u) \cup PaidRows(u)) \ {NoUser} : u \in Recipients}] :
          /\ \A u \in Recipients : rows[u] \in InitRows(u) \cup PaidRows(u)
          /\ Started([u \in Users |-> IF u \in Recipients THEN rows[u] ELSE NoUser])

\* A store with two registered users, who hold referral codes, and a third
\* person who has not met the bot yet; no delivery is due.
Referrers == {1, 2}

InitReferral ==
    /\ calc = NoCalc
    /\ \E t \in Times \ {0} :
        Started([u \in Users |-> IF u \in Referrers THEN Registered(u, t) ELSE NoUser])

FiringNext ==
    \/ \E u \in Users : \E k \in 1 .. Len(jobs[u]) : \E i \in Slots : BeginFiring(u, k, i)
    \/ \E i \in Slots : ExpireSubscription(i)
    \/ \E i \in Slots : ClearTrial(i)
    \/ \E i \in Slots : UsePoints(i)
    \/ \E i \in Slots : SetBonusSubscription(i)
    \/ \E i \in Slots : SendFull(i)
    \/ \E i \in Slots : SendPreview(i)
    \/ \E i \in Slots : Return(i)

\* The people who send /start while the daily firings are followed.
Visitors == {1, 2}

ScheduleNext ==
    \/ \E u \in Visitors : \E code \in Users \cup {None} : Start(u, code)
    \/ \E u \in Subscribers : \E x \in TimeInputs : CompleteRegistration(u, x)
    \/ \E u \in Subscribers : \E x \in TimeInputs : HandleTimeChange(u, x)
    \/ SchedRemove
    \/ SchedAdd

Next ==
    \/ FiringNext
    \/ Tick
    \/ ScheduleNext
    \/ \E u \in Subscribers : Payment(u)
    \/ PaymentPoints

Spec == Init /\ [][Next]_vars

\* The same program with process stops and restarts, for a store without
\* payments.
RestartNext ==
    \/ FiringNext
    \/ Tick
    \/ ScheduleNext
    \/ Crash
    \/ Boot
    \/ BootLoop

SpecRestart == Init /\ [][RestartNext]_vars

\* The daily firings of users of whom some have blocked the bot.
BlockedNext ==
    \/ FiringNext
    \/ Tick
    \/ \E i \in Slots : SendRefused(i)

SpecBlocked == Init /\ [][BlockedNext]_vars

\* The daily firings on days on which the ephemeris file can be missing.
EphemerisNext ==
    \/ FiringNext
    \/ Tick
    \/ \E i \in Slots : EphemerisUnavailable(i)

SpecEphemeris == Init /\ [][EphemerisNext]_vars

\* The daily firings of two users, which can overlap.
SpecTwo == InitTwo /\ [][FiringNext \/ Tick]_vars

\* The daily firings with the extension buttons pressed in between.
ExtendNext ==
    \/ FiringNext
    \/ Tick
    \/ \E u \in Subscribers : \E days \in ExtendDays : ExtendCallback(u, days)
    \/ ExtendClearTrial

SpecExtend == Init /\ [][ExtendNext]_vars

\* The referral programme: /start with and without a code, registration
\* and profile updates of every user, between two daily firings.
ReferralNext ==
    \/ \E u \in Users : \E code \in Users \cup {None} : Start(u, code)
    \/ \E u \in Users : \E x \in TimeInputs : CompleteRegistration(u, x)
    \/ \E u \in Users : \E field \in UpdateFields : \E x \in UpdateInputs : HandleUpdateValue(u, field, x)
    \/ SchedRemove
    \/ SchedAdd

SpecReferral == InitReferral /\ [][ReferralNext]_vars

\* The daily firings of that user, with nothing else happening, until the
\* day after the bonus days have run out.
BonusHorizon == Days(REFERRAL_BONUS_POINTS + 2) - 1

BonusNext ==
    \/ \E u \in Users : \E k \in 1 .. Len(jobs[u]) : \E i \in Slots : BeginFiring(u, k, i)
    \/ \E i \in Slots : UsePoints(i)
    \/ \E i \in Slots : SetBonusSubscription(i)
    \/ \E i \in Slots : ExpireSubscription(i)
    \/ \E i \in Slots : SendFull(i)
    \/ \E i \in Slots : SendPreview(i)
    \/ \E i \in Slots : Return(i)
    \/ Advance(BonusHorizon)

SpecBonus == InitBonus /\ [][BonusNext]_vars

\* ------------------------------------------- the functions of astrology.py
\* Charts handed to compute_transits: one body at every whole degree, and
\* charts of several bodies spread from a base longitude by a fixed gap;
\* _get_ecliptic_longitudes leaves out a body the ephemeris does not know.
WholeDegrees == {Deg(d) : d \in 0 .. 359}
AllLongitudes == 0 .. (Circle - 1)
OneBody(lon) == [planet \in {"sun"} |-> lon]
Chart(present, base, gap) ==
    [planet \in present |-> (base + (Index(planet) - 1) * gap) % Circle]
ChartBases == {Deg(0), Deg(90), Deg(200), Deg(350)}
ChartGaps == {Deg(0), Deg(30)}
BodySets == {Bodies, Bodies \ {"saturn"}, {"sun", "moon"}}
Charts == {Chart(present, base, gap) : present \in BodySets, base \in ChartBases, gap \in ChartGaps}

Input(natal, current) == [op |-> "input", natal |-> natal, current |-> current]

\* The bot itself is at rest, with an empty store.
AtRest == Started([u \in Users |-> NoUser])

\* get_daily_message, line 320.
ComputeTransits ==
    /\ calc.op = "input"
    /\ calc' = [op |-> "transits", natal |-> calc.natal, current |-> calc.current,
                transits |-> compute_transits(calc.natal, calc.current)]
    /\ UNCHANGED <<users, jobs, now, phase, handler, firings, day, calls, blocked>>

\* get_daily_message, line 321.
InterpretTransits ==
    /\ calc.op = "transits"
    /\ \E question \in Questions :
          calc' = [op |-> "message", natal |-> calc.natal, current |-> calc.current,
                   transits |-> calc.transits,
                   text |-> interpret_transits(calc.transits, question)]
    /\ UNCHANGED <<users, jobs, now, phase, handler, firings, day, calls, blocked>>

\* get_daily_message called once more for the same longitudes.
BuildAgain ==
    /\ calc.op = "message"
    /\ \E question \in Questions :
          calc' = [op |-> "rebuilt", natal |-> calc.natal, current |-> calc.current,
                   transits |-> calc.transits, text |-> calc.text,
                   text2 |-> interpret_transits(
                                 compute_transits(calc.natal, calc.current), question)]
    /\ UNCHANGED <<users, jobs, now, phase, handler, firings, day, calls, blocked>>

InitTransits ==
    /\ AtRest
    /\ calc \in {Input(OneBody(n), OneBody(c)) : n \in WholeDegrees, c \in WholeDegrees}
                \cup {Input(natal, current) : natal \in Charts, current \in Charts}

SpecTransits == InitTransits /\ [][ComputeTransits]_vars

InitMessage ==
    /\ AtRest
    /\ calc \in {Input(OneBody(0), OneBody(c)) : c \in AllLongitudes}
                \cup {Input(natal, current) : natal \in Charts, current \in Charts}

MessageNext ==
    \/ ComputeTransits
    \/ InterpretTransits
    \/ BuildAgain

SpecMessage == InitMessage /\ [][MessageNext]_vars

\* get_daily_message with its parsing of the stored birth data.  Instants
\* are counted in steps of the ephemeris; between two steps every body moves
\* on by Motion.  Missing stands for a NULL column, Malformed for every text
\* that split and int reject.
Instants == 0 .. 8
Motion == Deg(40)
Missing == 0 - 1
Malformed == 0 - 2
BirthInputs == Instants \cup {Missing, Malformed}

\* _get_ecliptic_longitudes at instant t, lines 59-69.
Ephemeris(t) == Chart(Bodies, (t * Motion) % Circle, Deg(30))

\* Lines 311-317: the birth instant, or the current instant when the stored
\* texts do not parse.
BirthInstant(birth, n) == IF birth \in Instants THEN birth ELSE n

\* get_daily_message, lines 311-321, called at instant calc.now.
GetDailyMessage ==
    /\ calc.op = "birth"
    /\ \E question \in Questions :
          LET natal_positions == Ephemeris(BirthInstant(calc.birth, calc.now))
              current_positions == Ephemeris(calc.now)
              transits == compute_transits(natal_positions, current_positions)
          IN calc' = [op |-> "daily", birth |-> calc.birth, now |-> calc.now,
                      transits |-> transits,
                      text |-> interpret_transits(transits, question)]
    /\ UNCHANGED <<users, jobs, now, phase, handler, firings, day, calls, blocked>>

InitBirth ==
    /\ AtRest
    /\ calc \in {[op |-> "birth", birth |-> b, now |-> n] : b \in BirthInputs, n \in Instants}

SpecBirth == InitBirth /\ [][GetDailyMessage]_vars

\* ------------------------------------------- the hour of a daily firing
\* schedule_daily_job lines 105-117 at the resolution of one hour, over four
\* days around the spring transition of config.TIMEZONE ("Europe/Berlin"):
\* UTC+1 until 01:00 UTC of the third day, UTC+2 from then on.
HoursPerDay == 24
Hours == 0 .. (HoursPerDay - 1)
LastHour == 4 * HoursPerDay - 1
Transition == 2 * HoursPerDay + 1

utcoffset(h) == IF h < Transition THEN 1 ELSE 2

LocalHour(h) == (h + utcoffset(h)) % HoursPerDay

\* Line 106 builds time(hour=hour, minute=minute) without tzinfo, line 753
\* builds the Updater without Defaults and config.TIMEZONE is read nowhere:
\* run_daily takes the time of day in the job queue's own zone, UTC.
FiresAt(t, h) == h % HoursPerDay = t

InitZone ==
    /\ AtRest
    /\ calc \in {[op |-> "zone", t |-> t, utc |-> 0, fired |-> None, done |-> FALSE] : t \in Hours}

\* The job fires: fired is the local hour the user's clock shows.
ZoneFire ==
    /\ calc.op = "zone"
    /\ FiresAt(calc.t, calc.utc)
    /\ ~calc.done
    /\ calc' = [calc EXCEPT !.fired = LocalHour(calc.utc), !.done = TRUE]
    /\ UNCHANGED <<users, jobs, now, phase, handler, firings, day, calls, blocked>>

ZoneHour ==
    /\ calc.op = "zone"
    /\ calc.utc < LastHour
    /\ FiresAt(calc.t, calc.utc) => calc.done
    /\ calc' = [calc EXCEPT !.utc = @ + 1, !.done = FALSE]
    /\ UNCHANGED <<users, jobs, now, phase, handler, firings, day, calls, blocked>>

SpecZone == InitZone /\ [][ZoneFire \/ ZoneHour]_vars

PaymentNext ==
    \/ \E u \in Recipients : PaymentReceived(u)
    \/ PaymentPoints
    \/ Tick

SpecPayment == InitPayment /\ [][PaymentNext]_vars

\* People who come through a referral link and ask for their own link.
CodesNext ==
    \/ \E u \in Users \ Subscribers : \E code \in Codes \cup {None} : Start(u, code)
    \/ \E u \in Users : ShowReferrals(u)

SpecCodes == InitCodes /\ [][CodesNext]_vars

BroadcastNext ==
    \/ \E u \in Users : \E has_text \in BOOLEAN : Broadcast(u, has_text)
    \/ BroadcastSend
    \/ BroadcastReply
    \/ BroadcastReturn

SpecBroadcast == InitBroadcast /\ [][BroadcastNext]_vars

\* The program of Spec with /update among the handlers, sent by users who
\* have registered; the text sent is the value the row holds or, for a date
\* or a time, one that does not parse.
UpdateAfterRegistration(u, field, x) ==
    /\ ProfileComplete(users[u]) /\ users[u].schedule_time # None
    /\ field = "name" => x = users[u].name
    /\ HandleUpdateValue(u, field, x)

TrialNext ==
    \/ Next
    \/ \E u \in Subscribers : \E field \in UpdateFields : \E x \in UpdateInputs : UpdateAfterRegistration(u, field, x)

SpecTrial == Init /\ [][TrialNext]_vars

PointsNext ==
    \/ \E c \in Callers : PointsAcquire(c)
    \/ \E c \in Callers : PointsSelect(c)
    \/ \E c \in Callers : PointsUpdate(c)
    \/ \E c \in Callers : PointsRelease(c)

SpecPoints == InitPoints /\ [][PointsNext]_vars

DialogueNext ==
    \/ \E u \in Subscribers : \E code \in {None} : StartCommand(u, code)
    \/ \E u \in Subscribers : \E x \in UpdateInputs : AskBirthDate(u, x)
    \/ \E u \in Subscribers : \E x \in UpdateInputs : AskBirthPlace(u, x)
    \/ \E u \in Subscribers : \E x \in UpdateInputs : AskBirthTime(u, x)
    \/ \E u \in Subscribers : \E x \in TimeInputs : AskNotifyTime(u, x)
    \/ \E u \in Subscribers : \E x \in TimeInputs : NotifyTimeText(u, x)
    \/ \E u \in Subscribers : SetTimeCommand(u)
    \/ \E u \in Subscribers : \E x \in TimeInputs : ChangeTimeText(u, x)
    \/ \E u \in Subscribers : UpdateCommand(u)
    \/ \E u \in Subscribers : \E field \in UpdateFields : UpdateSelection(u, field)
    \/ \E u \in Subscribers : \E x \in UpdateInputs : UpdateText(u, x)
    \/ SchedRemove
    \/ SchedAdd

SpecDialogue == InitDialogue /\ [][DialogueNext]_vars

SpecTimeText == InitTimeText /\ [][ParseTimeText \/ ScheduleTimeText]_vars

SpecRow == InitRow /\ [][AddOrUpdateRow]_vars

SubscribeNext ==
    \/ \E u \in Recipients : Subscribe(u)
    \/ Tick

SpecSubscribe == InitSubscribe /\ [][SubscribeNext]_vars

TypeOK ==
    /\ now \in 0 .. MaxNow
    /\ phase \in {"running", "down", "starting"}
    /\ \A u \in Users : users[u].points \in 0 .. MaxPoints

\* ======================================================== the properties
\* What the access policy of the specification reads from a stored row at
\* instant n.
SubscriptionUnexpired(user, n) ==
    /\ user.subscription_active /\ ~user.is_trial
    /\ user.subscription_expiration # None /\ user.subscription_expiration >= n

TrialUnexpired(user, n) ==
    /\ user.subscription_active /\ user.is_trial
    /\ user.subscription_expiration # None /\ user.subscription_expiration >= n

Eligible(user, n) ==
    SubscriptionUnexpired(user, n) \/ TrialUnexpired(user, n) \/ user.points > 0

FullAttempt == {"sent_full", "failed_full"}
PreviewAttempt == {"sent_preview", "failed_preview"}

\* C1: a finished firing has sent (or tried to send) the full message if the
\* row read at its start made the user eligible in the priority order
\* subscription, trial, bonus days, and the reminder, and no full message, if
\* it did not.
C1_DispatchFollowsPriority ==
    \A i \in Slots :
        firings[i].pc \in Terminal =>
            IF Eligible(firings[i].user, firings[i].now)
            THEN firings[i].pc \in FullAttempt
            ELSE firings[i].pc \in PreviewAttempt

\* C2: a finished firing for a user with an unexpired subscription and bonus
\* days has sent the full message and has taken no bonus day.
C2_SubscriptionKeepsBonus ==
    \A i \in Slots :
        ( /\ firings[i].pc \in Terminal
          /\ SubscriptionUnexpired(firings[i].user, firings[i].now)
          /\ firings[i].user.points > 0 )
        => firings[i].pc \in FullAttempt /\ firings[i].consumed = 0

\* C3: a finished firing for a user with no unexpired subscription
\* or trial and n > 0 bonus days, with no other writer of the row meanwhile,
\* was eligible through the bonus day and leaves n - 1 stored.
C3_BonusDecrementsByOne ==
    \A i \in Slots :
        ( /\ firings[i].pc \in Terminal
          /\ ~SubscriptionUnexpired(firings[i].user, firings[i].now)
          /\ ~TrialUnexpired(firings[i].user, firings[i].now)
          /\ firings[i].user.points > 0
          /\ ~firings[i].interfered )
        => /\ firings[i].source = "bonus"
           /\ users[firings[i].uid].points = firings[i].user.points - 1

\* C4: over the firings for one user on one day at most one bonus day is
\* taken and at most one firing changes the user's row.
C4_IdempotentConsumption ==
    \A u \in Users : day.consumed[u] <= 1 /\ day.changers[u] <= 1

\* C5: no user is sent two full messages on one day.
C5_NoTwoFullMessagesPerDay == \A u \in Users : day.full[u] <= 1

\* C6: a user who had a stored delivery time when the day began is sent at
\* least one message on that day, unless a send failed, a firing raised or
\* the process stopped on that day.
C6_MessageEveryDay == \A u \in Users : ~day.missed[u]

\* C7: a firing through the bonus day whose send of the full message failed
\* has taken no bonus day and has not changed the row.
C7_FailedSendConsumesNothing ==
    \A i \in Slots :
        (firings[i].pc = "failed_full" /\ firings[i].source = "bonus")
        => firings[i].consumed = 0 /\ ~firings[i].changed

\* C8: the stored points are never negative, and an update_points call of a
\* firing that asked for more than the balance left the count at 0.
C8_PointsNeverNegative ==
    /\ \A u \in Users : users[u].points >= 0
    /\ \A i \in Slots :
          (firings[i].left # None /\ firings[i].consumed < firings[i].user.points)
          => firings[i].left = 0

C8_Witness ==
    \E i \in Slots :
        /\ firings[i].left = 0
        /\ firings[i].user.points > 0
        /\ firings[i].consumed < firings[i].user.points

Rescheduling(u) == handler.uid = u /\ handler.pc \in {"remove", "add"}

\* C9: once a call of schedule_daily_job / schedule_job_with_jobqueue for a
\* user has finished, and outside a later call, exactly one job of that user
\* is live and its time of day is the one the last call was given.
C9_OneTriggerAfterReschedule ==
    \A u \in Users :
        (calls[u].n >= 1 /\ ~Rescheduling(u))
        => Len(jobs[u]) = 1 /\ jobs[u][1].tod = calls[u].t

C9_Witness ==
    \E u \in Users :
        /\ calls[u].n >= 3
        /\ ~Rescheduling(u)
        /\ Len(jobs[u]) = 1
        /\ jobs[u][1].tod = calls[u].t
        /\ jobs[u][1].tod # 0

\* C10: in no state, the states inside a reschedule included, are two jobs
\* of one user live.
C10_NeverTwoTriggers == \A u \in Users : Len(jobs[u]) <= 1

C10_Witness ==
    \E u \in Users :
        /\ handler.op = "resched"
        /\ handler.uid = u
        /\ handler.pc = "add"
        /\ calls[u].n >= 1
        /\ jobs[u] = << >>

\* C11: while main runs its start-up loop, before start_polling, every user
\* the loop has passed has exactly one job, at the stored delivery time, if
\* the row has a delivery time, and no job if it has none; when the loop has
\* passed the last user this holds of every stored user.
C11_StartupRegistersTriggers ==
    (handler.op = "boot" /\ handler.pc = "loop") =>
        \A u \in Users :
            u < handler.uid =>
                IF users[u].exists /\ users[u].schedule_time # None
                THEN Len(jobs[u]) = 1 /\ jobs[u][1].tod = users[u].schedule_time
                ELSE jobs[u] = << >>

C11_Witness ==
    /\ phase = "starting"
    /\ handler.op = "boot" /\ handler.pc = "loop"
    /\ handler.uid \notin Users
    /\ \E u \in Users : users[u].exists /\ users[u].schedule_time # None /\ Len(jobs[u]) = 1
    /\ \E u \in Users : users[u].exists /\ users[u].schedule_time = None /\ jobs[u] = << >>

\* C12: a firing that began after the user was reported unreachable, the
\* event on which the user is to be marked blocked, sends nothing: it makes
\* no send call, neither for the full message nor for the reminder.
C12_BlockedNeverSent ==
    [][\A i \in Slots :
          ( /\ firings[i].pc \in {"send_full", "send_preview"}
            /\ blocked[firings[i].uid] # None
            /\ firings[i].now > blocked[firings[i].uid] )
          => firings'[i].pc = firings[i].pc]_vars

\* C13: a finished firing for a user on trial without bonus days, whose trial
\* ends TRIAL_DAYS days after its start, has sent the full message if the
\* trial started less than TRIAL_DAYS days before the firing instant (the end
\* lies after it) and the reminder if it started exactly TRIAL_DAYS days
\* before (the end is the firing instant) or earlier.
C13_TrialComparisonStrict ==
    \A i \in Slots :
        ( /\ firings[i].pc \in Terminal
          /\ firings[i].user.subscription_active /\ firings[i].user.is_trial
          /\ firings[i].user.subscription_expiration # None
          /\ firings[i].user.points = 0 )
        => IF firings[i].user.subscription_expiration > firings[i].now
           THEN firings[i].pc \in FullAttempt
           ELSE firings[i].pc \in PreviewAttempt

\* C14: no step replaces a stored subscription expiration with an earlier
\* instant or clears it.
C14_ExpirationMonotonic ==
    [][\A u \in Users :
          users[u].subscription_expiration # None
          => /\ users'[u].subscription_expiration # None
             /\ users'[u].subscription_expiration >= users[u].subscription_expiration]_vars

\* C15: referred_by is write-once: no step changes a referred_by field that
\* holds a referral code.
C15_ReferredByWriteOnce ==
    [][\A u \in Users :
          users[u].referred_by # None
          => users'[u].referred_by = users[u].referred_by]_vars

\* A user with a referrer has sent /start with the code of another user.
C15_Witness ==
    \E u \in Users :
        /\ calls[u].ref # None
        /\ users[u].referred_by \notin {None, calls[u].ref}
        /\ \E v \in Users \ {u} : users[v].exists /\ users[v].referral_code = calls[u].ref

\* C16: a user who starts day 0 with n bonus days and nothing else, fired
\* once a day and credited nothing more, is sent the full message by the
\* firings of days 0 .. n - 1 and the reminder by every later firing.
C16_BonusDaysOneForOne ==
    \A i \in Slots :
        firings[i].pc \in Terminal
        => IF DayOf(firings[i].now) < REFERRAL_BONUS_POINTS
           THEN firings[i].pc \in FullAttempt
           ELSE firings[i].pc \in PreviewAttempt

\* C17: two builds of the message for the same natal and transit longitudes
\* give the same text.
C17_CompositionDeterministic ==
    calc.op = "rebuilt" => calc.text2 = calc.text

\* The lines of a text before its question.
TextLines(text) == {text[k] : k \in 1 .. (Len(text) - 1)}

\* The text built has the given planet lines, or the line of a quiet day
\* if there is none.
TextHas(lines) ==
    calc.op = "message"
    => TextLines(calc.text) = IF lines = {} THEN {QuietDay} ELSE lines

\* C18 as stated: conjunction iff s <= 6, sextile iff |s - 60| <= 4, square
\* iff |s - 90| <= 4, trine iff |s - 120| <= 4, opposition iff s >= 174,
\* nothing otherwise.
ClaimedAspect(s) ==
    IF s <= Deg(6) THEN "conjunction"
    ELSE IF Abs(s - Deg(60)) <= Deg(4) THEN "sextile"
    ELSE IF Abs(s - Deg(90)) <= Deg(4) THEN "square"
    ELSE IF Abs(s - Deg(120)) <= Deg(4) THEN "trine"
    ELSE IF s >= Deg(174) THEN "opposition"
    ELSE "none"

ClaimedLines(transits) ==
    {Phrase(planet, ClaimedAspect(transits[planet])) :
        planet \in {q \in DOMAIN transits : ClaimedAspect(transits[q]) # "none"}}

WindowAspect(s) ==
    IF s <= Deg(10) THEN "conjunction"
    ELSE IF Abs(s - Deg(60)) <= Deg(5) THEN "sextile"
    ELSE IF Abs(s - Deg(90)) <= Deg(5) THEN "square"
    ELSE IF Abs(s - Deg(120)) <= Deg(5) THEN "trine"
    ELSE IF s >= Deg(170) THEN "opposition"
    ELSE "none"

WindowLines(transits) ==
    {Phrase(planet, WindowAspect(transits[planet])) :
        planet \in {q \in DOMAIN transits : WindowAspect(transits[q]) # "none"}}

MinimalSeparation(a, b) ==
    LET d == Abs(b - a) % Circle
    IN Min(d, Circle - d)

C21_FallbackWhenNoEphemeris ==
    \A i \in Slots :
        (firings[i].pc \in Terminal /\ firings[i].source # "none")
        => firings[i].pc \in FullAttempt

\* C22: the message built for a user whose birth data is missing or does
\* not parse has no line about a planet: no transit is computed from a
\* substituted birth instant.
C22_NoTransitsWithoutBirthData ==
    (calc.op = "daily" /\ calc.birth \notin Instants)
    => \A k \in 1 .. (Len(calc.text) - 1) : calc.text[k][1] \notin Bodies

\* C23: a finished firing that was not eligible through a bonus day (it
\* was eligible through subscription or trial, or not eligible) has written
\* nothing to the user's row.
C23_DecisionWritesNothing ==
    \A i \in Slots :
        (firings[i].pc \in Terminal /\ firings[i].source # "bonus")
        => ~firings[i].changed

\* The callback in slot j can take its next step.
CanStep(j) ==
    \/ ENABLED ExpireSubscription(j)
    \/ ENABLED ClearTrial(j)
    \/ ENABLED UsePoints(j)
    \/ ENABLED SetBonusSubscription(j)
    \/ ENABLED SendFull(j)
    \/ ENABLED SendPreview(j)
    \/ ENABLED Return(j)

SendInProgress(i) == firings[i].pc \in {"send_full", "send_preview"}

Failed(pc) == pc \in {"raise", "failed_full", "failed_preview"}

C25_UnreachableUserCancelled ==
    \A u \in Users :
        ( /\ blocked[u] # None
          /\ \A i \in Slots : firings[i].pc = "idle" \/ firings[i].uid # u )
        => jobs[u] = << >>

\* C26: every firing of a user's job happens when the local clock of
\* Europe/Berlin shows the stored delivery hour, on the days before the
\* daylight-saving transition and on the days after it.
C26_FiresAtLocalTime ==
    (calc.op = "zone" /\ calc.fired # None) => calc.fired = calc.t

\* C27: when handle_successful_payment is over, the payer's subscription is
\* active and ends SUBSCRIPTION_DURATION_DAYS days after the base: the
\* expiration the handler read if the subscription (paid or trial) was active
\* and ended in the future, the instant of the payment otherwise.
C27_PaymentExtends ==
    (calc.op = "payment" /\ handler.op = "idle")
    => LET prior == calc.existing
           base == IF /\ prior.subscription_active
                      /\ prior.subscription_expiration # None
                      /\ prior.subscription_expiration > calc.now
                   THEN prior.subscription_expiration
                   ELSE calc.now
       IN /\ users[calc.uid].subscription_active
          /\ users[calc.uid].subscription_expiration = base + Days(SUBSCRIPTION_DURATION_DAYS)

\* A code handle_referral ignores for user u: none, one no stored user holds,
\* or the user's own.
Ignored(us, u, code) == code = None \/ get_user_by_referral_code(us, code) \in {0, u}

\* C28: a step that changes bonus days through /start credits exactly
\* REFERRAL_BONUS_POINTS to one referrer, and only together with the first
\* write of that referrer's code into the referred_by field of another user,
\* which is never written again, so at most once per referred user; and
\* handle_referral with no code, an unknown code or the user's own code
\* returns the store as it is.
C28_ReferralCreditedOnce ==
    /\ [](\A u \in Users : \A code \in Users \cup {None} :
             Ignored(users, u, code) => handle_referral(users, code, u) = users)
    /\ [][\A r \in Users :
             users'[r].points # users[r].points
             => /\ users'[r].points = users[r].points + REFERRAL_BONUS_POINTS
                /\ \A q \in Users \ {r} : users'[q].points = users[q].points
                /\ \E u \in Users \ {r} :
                      /\ users[u].referred_by = None
                      /\ users'[u].referred_by = users[r].referral_code]_vars

\* A referrer was credited for a user who then sent /start again with the
\* code of another user, and that other user was credited nothing.
C28_Witness ==
    \E u \in Users : \E r \in Users \ {u} : \E q \in Users \ {u, r} :
        /\ users[u].referred_by # None
        /\ users[r].referral_code = users[u].referred_by
        /\ users[r].points = REFERRAL_BONUS_POINTS
        /\ calls[u].ref # None
        /\ users[q].referral_code = calls[u].ref
        /\ users[q].points = 0

\* C29: no two stored users hold the same referral code; a step never
\* changes a code a row holds; and assign_referral_code for a user who holds
\* a code returns that code and leaves the store as it is.
C29_CodesUniqueAndKept ==
    /\ [](\A u \in Users : \A v \in Users \ {u} :
             (users[u].referral_code # None /\ users[v].referral_code # None)
             => users[u].referral_code # users[v].referral_code)
    /\ [][\A u \in Users :
             users[u].referral_code # None
             => /\ users'[u].referral_code = users[u].referral_code
                /\ ShowReferrals(u)
                   => (users' = users /\ calc'.code = users[u].referral_code)]_vars

\* Every user holds a code, and the last request for a code came from a
\* user who held one already.
C29_Witness ==
    /\ \A u \in Users : users[u].exists /\ users[u].referral_code # None
    /\ calc.op = "code" /\ calc.held

\* C30: a /broadcast from a user outside ADMIN_IDS attempts no send to
\* anyone; one from an admin with a text that has reported its count has
\* attempted a send to every stored user, whether or not earlier sends
\* failed, and the count reported is the number of sends that succeeded.
C30_BroadcastAdminOnly ==
    calc.op = "broadcast"
    => /\ calc.invoker \notin calc.admins => calc.attempted = {}
       /\ calc.reply = "count"
          => /\ calc.invoker \in calc.admins
             /\ calc.attempted = {u \in Users : users[u].exists}
             /\ calc.reported = Cardinality(calc.delivered)

\* An admin's broadcast has reported its count after a send failed and a
\* later one succeeded, while another stored user is not an admin.
C30_Witness ==
    /\ calc.op = "broadcast" /\ calc.reply = "count"
    /\ \E f \in calc.attempted \ calc.delivered : \E d \in calc.delivered : f < d
    /\ \E u \in Users : users[u].exists /\ u \notin calc.admins

\* C31: a stored user whose subscription_active flag is off has no
\* subscription_expiration, and set_subscription_status with active False
\* leaves none whatever expiration it is given.
C31_InactiveHasNoExpiration ==
    \A u \in Users :
        /\ ~users[u].subscription_active => users[u].subscription_expiration = None
        /\ \A e \in InitExpirations \cup {None} :
              set_subscription_status(users, u, FALSE, e, FALSE, None)[u].subscription_expiration = None

\* A finished firing has switched off the subscription it read as active.
C31_Witness ==
    \E i \in Slots :
        /\ firings[i].pc \in Terminal
        /\ firings[i].user.subscription_active
        /\ firings[i].user.subscription_expiration # None
        /\ ~users[firings[i].uid].subscription_active

HasRegistered(user) ==
    /\ user.exists /\ user.name # None /\ user.birth_date # None
    /\ user.birth_time # None /\ user.schedule_time # None

\* C34: for a user who has completed registration no step starts a trial,
\* gives a trial expiration where there was none or moves it later, or moves
\* later the expiration that a running trial is tested against.
C34_TrialGrantedOnce ==
    [][\A u \in Users :
          HasRegistered(users[u])
          => /\ users'[u].is_trial => users[u].is_trial
             /\ users'[u].trial_expiration # None
                => /\ users[u].trial_expiration # None
                   /\ users'[u].trial_expiration <= users[u].trial_expiration
             /\ (users'[u].is_trial /\ users'[u].subscription_active)
                => users'[u].subscription_expiration <= users[u].subscription_expiration]_vars

\* A user registered in this run, is no longer on trial, and has sent
\* /start again since.
C34_Witness ==
    \E u \in Users :
        /\ HasRegistered(users[u])
        /\ calls[u].n >= 2
        /\ ~users[u].is_trial
        /\ handler.op = "idle"

\* The sum of the credits of the calls in set S.
RECURSIVE Credited(_)
Credited(S) ==
    IF S = {} THEN 0
    ELSE LET c == CHOOSE x \in S : TRUE
         IN calc.delta[c] + Credited(S \ {c})

\* C35: whatever the interleaving of concurrent update_points calls with
\* non-negative deltas for one user, the stored count is at every moment
\* the initial count plus the deltas of the calls that have written, and
\* when all calls are over it is the initial count plus all the deltas.
C35_NoCreditLost ==
    calc.op = "points"
    => users[Payer].points
         = calc.initial + Credited({c \in Callers : calc.pc[c] \in {"release", "done"}})

\* All calls are over and at least two of them credited something.
C35_Witness ==
    /\ calc.op = "points"
    /\ \A c \in Callers : calc.pc[c] = "done"
    /\ \E c \in Callers : \E d \in Callers \ {c} : calc.delta[c] > 0 /\ calc.delta[d] > 0
    /\ users[Payer].points > calc.initial

\* The messages whose text goes through parse_date or parse_time_str.
Parsing(c) ==
    \/ c.last \in {"ask_birth_place", "ask_notify_time", "complete_registration",
                   "handle_time_change"}
    \/ c.last = "handle_update_value" /\ c.field \in {"birth_date", "birth_time"}

\* C36: a message whose text the parser rejects leaves the stored rows and
\* the jobs as they were, and leaves the registration and the set-time
\* conversation in the state they were in.
C36_RejectedInputChangesNothing ==
    [][(calc.op = "dialogue" /\ calc'.turn # calc.turn
        /\ Parsing([calc' EXCEPT !.field = calc.field]) /\ calc'.text = BadTime)
       => /\ users' = users
          /\ jobs' = jobs
          /\ handler' = handler
          /\ calc'.registration = calc.registration
          /\ calc'.settime = calc.settime]_vars

\* A stored user, asked for a new delivery time, has sent a text that does
\* not parse, and the job armed before is live.
C36_Witness ==
    /\ calc.op = "dialogue"
    /\ calc.last = "handle_time_change" /\ calc.text = BadTime
    /\ calc.settime = "CHANGE_TIME"
    /\ \E u \in Subscribers : Len(jobs[u]) = 1

\* HH:MM with 00 <= HH <= 23 and 00 <= MM <= 59.
Canonical(s) ==
    /\ Len(s) = 5 /\ s[3] = ":"
    /\ AllDigits(SubSeq(s, 1, 2)) /\ AllDigits(SubSeq(s, 4, 5))
    /\ IntOf(SubSeq(s, 1, 2)) <= 23 /\ IntOf(SubSeq(s, 4, 5)) <= 59

\* C37: a schedule_time the parser lets a handler store is a canonical
\* HH:MM text, and schedule_daily_job, given that text, arms a job at that
\* hour and minute rather than taking its invalid-format branch.
C37_StoredTimeCanonical ==
    (calc.op = "time_text" /\ calc.schedule_time # NoText)
    => /\ Canonical(calc.schedule_time)
       /\ target_time(calc.schedule_time)
            = << IntOf(SubSeq(calc.schedule_time, 1, 2)), IntOf(SubSeq(calc.schedule_time, 4, 5)) >>
       /\ calc.pc = "scheduled" => calc.target_time # NoText

\* A text with a one-digit hour and a blank around it was stored and
\* scheduled.
C37_Witness ==
    /\ calc.op = "time_text" /\ calc.pc = "scheduled"
    /\ Len(calc.text) = 5 /\ calc.text[1] = " "
    /\ calc.text # calc.schedule_time

\* C38: on an existing row add_or_update_user changes the columns passed
\* with a value other than None to that value and leaves every other column
\* (those passed as None, and points, subscription_active,
\* subscription_expiration and registration_date) as it was; with no row it
\* inserts one with the arguments, points 0 and no subscription.
C38_UpdatesOnlyWhatIsPassed ==
    (calc.op = "row" /\ calc.pc = "done")
    => IF calc.row # NoRow
       THEN /\ DOMAIN calc.after = DOMAIN calc.row
            /\ \A c \in ArgColumns : calc.args[c] # None => calc.after[c] = calc.args[c]
            /\ \A c \in ArgColumns : calc.args[c] = None => calc.after[c] = calc.row[c]
            /\ \A c \in KeptColumns : calc.after[c] = calc.row[c]
       ELSE /\ calc.after # NoRow
            /\ \A c \in ArgColumns : calc.after[c] = calc.args[c]
            /\ calc.after["points"] = 0
            /\ calc.after["subscription_active"] = 0
            /\ calc.after["subscription_expiration"] = None

\* A subscriber with points and a stored name was updated with a new
\* birth_time and nothing else.
C38_Witness ==
    /\ calc.op = "row" /\ calc.pc = "done" /\ calc.row # NoRow
    /\ calc.row["subscription_active"] = 1 /\ calc.row["points"] = REFERRAL_BONUS_POINTS
    /\ calc.row["name"] = 0 /\ calc.args["name"] = None
    /\ calc.args["birth_time"] = 1 /\ calc.after["birth_time"] = 1
    /\ \A c \in ArgColumns \ {"birth_time"} : calc.args[c] = None

\* C39: /subscribe sends an invoice exactly when the user is stored and the
\* stored subscription_active flag is 0.
C39_InvoiceIffInactive ==
    (calc.op = "subscribe" /\ calc.sent # "nothing")
    => (calc.sent = "invoice" <=> (calc.user.exists /\ ~calc.user.subscription_active))

\* The bodies of a map whose separation lies in one of the windows.
InWindow(transits) ==
    {planet \in DOMAIN transits :
        \E k \in 1 .. Len(aspects) :
            aspects[k].low <= transits[planet] /\ transits[planet] <= aspects[k].high}

\* C40: the text interpret_transits returns ends with one of the reflective
\* questions; before it stands the generic line alone when no body's
\* separation is in a window, and otherwise one line for each body whose
\* separation is in a window and no other line.
C40_TextShape ==
    calc.op = "message"
    => LET text == calc.text
           before == 1 .. (Len(text) - 1)
       IN /\ Len(text) >= 2
          /\ \E q \in Questions : text[Len(text)] = Question(q)
          /\ IF InWindow(calc.transits) = {}
             THEN Len(text) = 2 /\ text[1] = QuietDay
             ELSE /\ Len(text) - 1 = Cardinality(InWindow(calc.transits))
                  /\ \A planet \in InWindow(calc.transits) :
                        Cardinality({k \in before : text[k][1] = planet}) = 1

\* A text was built for a map in which some bodies, more than one, are in a
\* window and others are not.
C40_Witness ==
    /\ calc.op = "message"
    /\ Cardinality(InWindow(calc.transits)) >= 2
    /\ InWindow(calc.transits) # DOMAIN calc.transits
    /\ Len(calc.text) = Cardinality(InWindow(calc.transits)) + 1

====
